---- MODULE Spec2Model ----
(***************************************************************************)
(* k8s-mcp-server: the process (main), the configuration loader            *)
(* (internal/config), the server construction (internal/server), the tool  *)
(* dispatch layer (internal/handlers) and the cluster client adapter       *)
(* (internal/k8s), as a state machine.                                     *)
(*                                                                         *)
(* Go values are represented as follows.                                   *)
(*   string            a TLA+ string; a string that the code parses is a   *)
(*                     sequence of one-character strings                   *)
(*   pointer, error    a sequence of length 0 (nil) or 1 (the pointee);    *)
(*                     an error is its chain of wrapped messages, <<>> is  *)
(*                     the nil error                                       *)
(*   slice             [isNil, elems]: a nil slice and an empty non-nil    *)
(*                     slice both have Len(elems) = 0                      *)
(*   map[string]string [isNil, kv] with kv a set of <<key, value>> pairs   *)
(*   interface{}       [t, s, n, c]: dynamic type t, with s the string,    *)
(*                     n the number (a float64 in tenths) and c the        *)
(*                     characters of a string the code parses              *)
(***************************************************************************)
EXTENDS Integers, Sequences, FiniteSets, TLC

VARIABLES
    program,      \* the main function the process runs
    environ,      \* the environment variables config.Load read
    cfg,          \* the *config.Config main holds (nil before config.Load)
    steps,        \* the startup steps main has run, in order
    cancelled,    \* the context of main is cancelled (a signal arrived)
    exitStatus,   \* nil while the process runs, else its exit status
    lastLog,      \* the last record main or the signal goroutine logged
    phase,        \* "init" at the start of main, "loaded" after config.Load,
                  \* "levelled" after the log level is parsed, "built" after
                  \* server.New; then "serving" (waiting for a request) or
                  \* "responding" (HandleTool returned, its response is to be
                  \* written); "crashed" after a panic, "exited" after main
                  \* returned or called os.Exit
    registered,   \* the tools added to the MCP server by server.New
    request,      \* the CallToolRequest of the last invocation of HandleTool
    apiCalls,     \* the requests that invocation sent upstream, with their responses
    adapterRet,   \* what the k8s.Client method returned to the handler
    ret,          \* what HandleTool returned: [result, err, panicked]
    cluster,      \* the cluster state while calls run concurrently (nil when
                  \* every upstream response is taken as it comes)
    inflight      \* the invocations of HandleTool that run concurrently, one
                  \* per goroutine: [pc, request, sent, ret]

\* the state of main and of the process
mainVars == <<program, environ, cfg, steps, cancelled, exitStatus, lastLog>>
\* the state of the last invocation of HandleTool
callVars == <<request, apiCalls, adapterRet, ret>>
\* the cluster and the invocations that run concurrently
concVars == <<cluster, inflight>>

vars == <<program, environ, cfg, steps, cancelled, exitStatus, lastLog,
          phase, registered, request, apiCalls, adapterRet, ret, cluster, inflight>>

----------------------------------------------------------------------------
(* Bounds of the model *)

\* longest upstream list response
MaxItems == 2
\* most container statuses of a pod
MaxContainers == 2
\* longest `tail` string argument
MaxTailLen == 3
\* most chunks of a log stream
MaxChunks == 2
\* most invocations of HandleTool running at the same time
MaxCalls == 2

----------------------------------------------------------------------------
(* Go scalars *)

MaxInt32 == 2147483647
MinInt32 == -MaxInt32 - 1

\* a + b in int32 arithmetic (two's complement wrap-around), computed without
\* leaving the int32 range
AddInt32(a, b) ==
    IF b > 0 /\ a > MaxInt32 - b THEN (a - MaxInt32 - 1) + (b - MaxInt32 - 1)
    ELSE IF b < 0 /\ a < MinInt32 - b THEN (a + MaxInt32 + 1) + (b + MaxInt32 + 1)
    ELSE a + b

Nil == <<>>
Ptr(v) == <<v>>
Deref(p) == p[1]

NilSlice == [isNil |-> TRUE, elems |-> <<>>]
GoAppend(sl, x) == [isNil |-> FALSE, elems |-> sl.elems \o <<x>>]

NilMap == [isNil |-> TRUE, kv |-> {}]
MapOf(pairs) == [isNil |-> FALSE, kv |-> pairs]

\* fmt.Errorf("msg: %w", err)
Wrap(msg, err) == <<msg>> \o err
\* fmt.Errorf("msg")
Errorf(msg) == <<msg>>

RECURSIVE Str(_)
\* the string made of the characters cs
Str(cs) == IF cs = <<>> THEN "" ELSE Head(cs) \o Str(Tail(cs))

RECURSIVE SeqsUpTo(_, _)
\* the sequences over S of length at most n
SeqsUpTo(S, n) ==
    IF n = 0 THEN {<<>>}
    ELSE LET shorter == SeqsUpTo(S, n - 1)
         IN  shorter \cup {s \o <<x>> : s \in {t \in shorter : Len(t) = n - 1}, x \in S}

----------------------------------------------------------------------------
(* Upstream resource objects (k8s.io/api), with the fields the adapter reads. *)
(* sinceCreation is time.Since(CreationTimestamp) at the time of the          *)
(* projection, in whole seconds (truncated toward zero).                      *)

Namespaces == {"default", "prod"}

ContainerStatuses == [ready : BOOLEAN, restartCount : {0, 1, MaxInt32}]

AppLabels == MapOf({<<"app", "test">>})
\* a map that is present and has no entry (decoded from "labels": {})
EmptyLabels == MapOf({})

\* the pods a Get of `name` in `ns` can return
PodsNamed(ns, name) ==
    [name : {name}, namespace : {ns}, phase : {"Running"},
     containerStatuses : SeqsUpTo(ContainerStatuses, MaxContainers),
     sinceCreation : {3600}, labels : {NilMap, EmptyLabels, AppLabels},
     nodeName : {"node-1"}, podIP : {"10.0.0.1"}]

\* the pods a List of `ns` draws its items from
PodsIn(ns) ==
    { [name |-> "web", namespace |-> ns, phase |-> "Running",
       containerStatuses |-> <<[ready |-> TRUE, restartCount |-> 0]>>,
       sinceCreation |-> 3600, labels |-> AppLabels,
       nodeName |-> "node-1", podIP |-> "10.0.0.1"],
      [name |-> "db", namespace |-> ns, phase |-> "Pending",
       containerStatuses |-> <<[ready |-> FALSE, restartCount |-> 1],
                               [ready |-> TRUE, restartCount |-> 1]>>,
       sinceCreation |-> 1800, labels |-> NilMap,
       nodeName |-> "", podIP |-> ""],
      [name |-> "job", namespace |-> ns, phase |-> "Succeeded",
       containerStatuses |-> <<>>,
       sinceCreation |-> 30, labels |-> NilMap,
       nodeName |-> "node-2", podIP |-> "10.0.0.3"] }

ServicesIn(ns) ==
    { [name |-> "web", namespace |-> ns, type |-> "ClusterIP",
       clusterIP |-> "10.0.0.100",
       ports |-> <<[port |-> 80, protocol |-> "TCP", nodePort |-> 0]>>,
       ingress |-> <<>>,
       sinceCreation |-> 90000, labels |-> AppLabels,
       selector |-> AppLabels],
      [name |-> "lb", namespace |-> ns, type |-> "LoadBalancer",
       clusterIP |-> "10.0.0.101",
       ports |-> <<[port |-> 443, protocol |-> "TCP", nodePort |-> 30443],
                   [port |-> 53, protocol |-> "UDP", nodePort |-> 0]>>,
       ingress |-> <<[ip |-> "1.2.3.4", hostname |-> ""],
                     [ip |-> "", hostname |-> "lb.example.com"],
                     [ip |-> "5.6.7.8", hostname |-> "both.example.com"]>>,
       sinceCreation |-> 300, labels |-> NilMap,
       selector |-> NilMap] }

\* the ages of objects whose creation timestamp is later than the clock of the
\* server (clock skew): time.Since is negative
SkewedAges == {-1, -30, -60, -3600, -90000}

\* the ages (time.Since of the creation timestamp, in seconds) a Get sees: the
\* two sides of each unit boundary, values far from them, and negative ones
Ages ==
    {0, 1, 30, 59, 60, 61, 119, 120, 300, 3599, 3600, 3601, 7199, 7200, 10800,
     86399, 86400, 86401, 90000, 172799, 172800, 31536000}
        \cup SkewedAges

\* the services a Get of `name` in `ns` can return: at any age, and at one age
\* with any labels and selector
ServicesNamed(ns, name) ==
    LET named == {t \in ServicesIn(ns) : t.name = name}
    IN  {[s EXCEPT !.sinceCreation = a] : s \in named, a \in Ages}
           \cup {[s EXCEPT !.labels = l, !.selector = sel] :
                    s \in named, l \in {NilMap, EmptyLabels, AppLabels},
                    sel \in {NilMap, EmptyLabels, AppLabels}}

\* the deployments a Get of `name` in `ns` can return; specReplicas is the
\* pointer Spec.Replicas, statusReplicas is Status.Replicas
DeploymentsNamed(ns, name) ==
    [name : {name}, namespace : {ns},
     readyReplicas : {0, 2}, updatedReplicas : {3}, availableReplicas : {2},
     statusReplicas : {0, 4}, specReplicas : {Nil, Ptr(0), Ptr(3)},
     sinceCreation : {7200}, labels : {NilMap, EmptyLabels, AppLabels}]

DeploymentsIn(ns) ==
    { [name |-> "web", namespace |-> ns,
       readyReplicas |-> 2, updatedReplicas |-> 3, availableReplicas |-> 2,
       statusReplicas |-> 4, specReplicas |-> Ptr(3),
       sinceCreation |-> 7200, labels |-> AppLabels],
      [name |-> "db", namespace |-> ns,
       readyReplicas |-> 0, updatedReplicas |-> 0, availableReplicas |-> 0,
       statusReplicas |-> 1, specReplicas |-> Ptr(0),
       sinceCreation |-> 59, labels |-> NilMap],
      [name |-> "api", namespace |-> ns,
       readyReplicas |-> 1, updatedReplicas |-> 1, availableReplicas |-> 1,
       statusReplicas |-> 1, specReplicas |-> Nil,
       sinceCreation |-> 60, labels |-> NilMap] }

NamespaceObjects ==
    { [name |-> "default", phase |-> "Active", sinceCreation |-> 864000,
       labels |-> NilMap],
      [name |-> "prod", phase |-> "Terminating", sinceCreation |-> 86399,
       labels |-> AppLabels],
      [name |-> "kube-system", phase |-> "Active", sinceCreation |-> 864000,
       labels |-> EmptyLabels] }

\* the list responses over S: at most MaxItems items, no object twice
ListsOver(S) ==
    {l \in SeqsUpTo(S, MaxItems) :
        \A i, j \in 1..Len(l) : i # j => l[i].name # l[j].name}

----------------------------------------------------------------------------
(* internal/k8s: the projections *)

\* formatAge with the comparisons of its branches made inclusive
formatAge_BoundaryInclusive(age) ==
    IF age <= 60 THEN ToString(age) \o "s"
    ELSE IF age <= 3600 THEN ToString(age \div 60) \o "m"
    ELSE IF age <= 86400 THEN ToString(age \div 3600) \o "h"
    ELSE ToString(age \div 86400) \o "d"

\* formatAge, on age = time.Since(creationTime) in whole seconds
formatAge(age) ==
    IF age < 60 THEN ToString(age) \o "s"
    ELSE IF age < 3600 THEN ToString(age \div 60) \o "m"
    ELSE IF age < 86400 THEN ToString(age \div 3600) \o "h"
    ELSE ToString(age \div 86400) \o "d"

RECURSIVE CountContainers(_, _)
\* the loop of buildPodInfo over pod.Status.ContainerStatuses, from the
\* counters acc = [ready, total, restarts] (all int32)
CountContainers(statuses, acc) ==
    IF statuses = <<>> THEN acc
    ELSE LET containerStatus == Head(statuses)
         IN  CountContainers(Tail(statuses),
                 [total    |-> AddInt32(acc.total, 1),
                  ready    |-> IF containerStatus.ready
                               THEN AddInt32(acc.ready, 1) ELSE acc.ready,
                  restarts |-> AddInt32(acc.restarts, containerStatus.restartCount)])

buildPodInfo(pod) ==
    LET c == CountContainers(pod.containerStatuses,
                             [ready |-> 0, total |-> 0, restarts |-> 0])
    IN  [Name      |-> pod.name,
         Namespace |-> pod.namespace,
         Status    |-> pod.phase,
         Ready     |-> ToString(c.ready) \o "/" \o ToString(c.total),
         Restarts  |-> c.restarts,
         Age       |-> formatAge(pod.sinceCreation),
         Labels    |-> pod.labels,
         NodeName  |-> pod.nodeName,
         PodIP     |-> pod.podIP]

RECURSIVE FormatPorts(_, _)
\* the loop of buildServiceInfo over service.Spec.Ports
FormatPorts(specPorts, ports) ==
    IF specPorts = <<>> THEN ports
    ELSE LET port == Head(specPorts)
             base == ToString(port.port) \o "/" \o port.protocol
             portStr == IF port.nodePort # 0
                        THEN base \o ":" \o ToString(port.nodePort)
                        ELSE base
         IN  FormatPorts(Tail(specPorts), GoAppend(ports, portStr))

RECURSIVE CollectExternalIPs(_, _)
\* the loop of buildServiceInfo over service.Status.LoadBalancer.Ingress
CollectExternalIPs(ingress, externalIPs) ==
    IF ingress = <<>> THEN externalIPs
    ELSE LET ip == Head(ingress)
             withIP == IF ip.ip # "" THEN GoAppend(externalIPs, ip.ip)
                       ELSE externalIPs
             withHost == IF ip.hostname # "" THEN GoAppend(withIP, ip.hostname)
                         ELSE withIP
         IN  CollectExternalIPs(Tail(ingress), withHost)

buildServiceInfo(service) ==
    [Name        |-> service.name,
     Namespace   |-> service.namespace,
     Type        |-> service.type,
     ClusterIP   |-> service.clusterIP,
     ExternalIPs |-> CollectExternalIPs(service.ingress, NilSlice),
     Ports       |-> FormatPorts(service.ports, NilSlice),
     Age         |-> formatAge(service.sinceCreation),
     Labels      |-> service.labels,
     Selector    |-> service.selector]

\* buildDeploymentInfo dereferences deployment.Spec.Replicas: a nil pointer
\* there is a run-time panic
buildDeploymentInfoPanics(deployment) == deployment.specReplicas = Nil

\* mutant: the ready string and the replicas from Status.Replicas
buildDeploymentInfo_StatusReplicas(deployment) ==
    [Name      |-> deployment.name,
     Namespace |-> deployment.namespace,
     Ready     |-> ToString(deployment.readyReplicas) \o "/"
                       \o ToString(deployment.statusReplicas),
     UpToDate  |-> deployment.updatedReplicas,
     Available |-> deployment.availableReplicas,
     Age       |-> formatAge(deployment.sinceCreation),
     Labels    |-> deployment.labels,
     Replicas  |-> deployment.statusReplicas]

buildDeploymentInfo(deployment) ==
    [Name      |-> deployment.name,
     Namespace |-> deployment.namespace,
     Ready     |-> ToString(deployment.readyReplicas) \o "/"
                       \o ToString(Deref(deployment.specReplicas)),
     UpToDate  |-> deployment.updatedReplicas,
     Available |-> deployment.availableReplicas,
     Age       |-> formatAge(deployment.sinceCreation),
     Labels    |-> deployment.labels,
     Replicas  |-> Deref(deployment.specReplicas)]

buildNamespaceInfo(namespace) ==
    [Name   |-> namespace.name,
     Status |-> namespace.phase,
     Age    |-> formatAge(namespace.sinceCreation),
     Labels |-> namespace.labels]

----------------------------------------------------------------------------
(* The cluster API behind kubernetes.Interface: what one request can answer. *)
(* A response carries the error of the call (Nil when it succeeded).         *)

NotFound == <<"not found">>
Forbidden == <<"forbidden">>

ApiRequest(verb, resource, namespace, name, tailLines) ==
    [verb |-> verb, resource |-> resource, namespace |-> namespace,
     name |-> name, tailLines |-> tailLines]

\* List: an error, or the items of the namespace in the API's order
ListResponses(S) ==
    {[err |-> Forbidden, items |-> <<>>]}
        \cup {[err |-> Nil, items |-> l] : l \in ListsOver(S)}

\* Get: not found, another error, or the object
GetResponses(S) ==
    {[err |-> e, obj |-> Nil] : e \in {NotFound, Forbidden}}
        \cup {[err |-> Nil, obj |-> Ptr(o)] : o \in S}

LogChunks == {"a\n", "b\n"}

\* GetLogs(...).Stream: an error, or a stream whose reads give the chunks and
\* then end with readErr (io.EOF or a failure of the connection)
LogResponses ==
    {[err |-> e, chunks |-> <<>>, readErr |-> ""] : e \in {NotFound, Forbidden}}
        \cup {[err |-> Nil, chunks |-> cs, readErr |-> r] :
                 cs \in SeqsUpTo(LogChunks, MaxChunks),
                 r \in {"EOF", "unexpected EOF"}}

NoResponse == [err |-> Nil]

----------------------------------------------------------------------------
(* internal/k8s: the Client methods. Each returns [val, err, panicked] and *)
(* the one request it sent upstream.                                       *)

Returned(val, err) == [val |-> val, err |-> err, panicked |-> FALSE]
Panicked == [val |-> Nil, err |-> Nil, panicked |-> TRUE]

RECURSIVE PodInfos_Prepend(_, _)
\* mutant: each record is put in front of the ones before it
PodInfos_Prepend(items, podInfos) ==
    IF items = <<>> THEN podInfos
    ELSE PodInfos_Prepend(Tail(items),
             [isNil |-> FALSE,
              elems |-> <<buildPodInfo(Head(items))>> \o podInfos.elems])

RECURSIVE PodInfos(_, _)
\* for _, pod := range pods.Items
PodInfos(items, podInfos) ==
    IF items = <<>> THEN podInfos
    ELSE PodInfos(Tail(items), GoAppend(podInfos, buildPodInfo(Head(items))))

ClientListPods(namespace, resp) ==
    IF resp.err # Nil
    THEN Returned(NilSlice,
                  Wrap("failed to list pods in namespace " \o namespace, resp.err))
    ELSE Returned(PodInfos(resp.items, NilSlice), Nil)

ClientGetPod(namespace, name, resp) ==
    IF resp.err # Nil
    THEN Returned(Nil, Wrap("failed to get pod " \o name \o " in namespace "
                                \o namespace, resp.err))
    ELSE Returned(Ptr(buildPodInfo(Deref(resp.obj))), Nil)

RECURSIVE ServiceInfos(_, _)
\* for _, service := range services.Items
ServiceInfos(items, serviceInfos) ==
    IF items = <<>> THEN serviceInfos
    ELSE ServiceInfos(Tail(items),
                      GoAppend(serviceInfos, buildServiceInfo(Head(items))))

ClientListServices(namespace, resp) ==
    IF resp.err # Nil
    THEN Returned(NilSlice,
                  Wrap("failed to list services in namespace " \o namespace, resp.err))
    ELSE Returned(ServiceInfos(resp.items, NilSlice), Nil)

\* mutant: the error of the Get is dropped
ClientGetService_ErrorDropped(namespace, name, resp) ==
    IF resp.err # Nil
    THEN Returned(Nil, Nil)
    ELSE Returned(Ptr(buildServiceInfo(Deref(resp.obj))), Nil)

ClientGetService(namespace, name, resp) ==
    IF resp.err # Nil
    THEN Returned(Nil, Wrap("failed to get service " \o name \o " in namespace "
                                \o namespace, resp.err))
    ELSE Returned(Ptr(buildServiceInfo(Deref(resp.obj))), Nil)

RECURSIVE DeploymentInfos(_, _)
\* for _, deployment := range deployments.Items
DeploymentInfos(items, deploymentInfos) ==
    IF items = <<>> THEN deploymentInfos
    ELSE DeploymentInfos(Tail(items),
             GoAppend(deploymentInfos, buildDeploymentInfo(Head(items))))

\* ClientListDeployments leaving out the deployments it cannot project and
\* returning the records of the others
ClientListDeployments_SkipFaulty(namespace, resp) ==
    IF resp.err # Nil
    THEN Returned(NilSlice,
                  Wrap("failed to list deployments in namespace " \o namespace,
                       resp.err))
    ELSE Returned(DeploymentInfos(
                      SelectSeq(resp.items, LAMBDA d : ~buildDeploymentInfoPanics(d)),
                      NilSlice), Nil)

ClientListDeployments(namespace, resp) ==
    IF resp.err # Nil
    THEN Returned(NilSlice,
                  Wrap("failed to list deployments in namespace " \o namespace,
                       resp.err))
    ELSE IF \E i \in 1..Len(resp.items) : buildDeploymentInfoPanics(resp.items[i])
    THEN Panicked
    ELSE Returned(DeploymentInfos(resp.items, NilSlice), Nil)

ClientGetDeployment(namespace, name, resp) ==
    IF resp.err # Nil
    THEN Returned(Nil, Wrap("failed to get deployment " \o name \o " in namespace "
                                \o namespace, resp.err))
    ELSE IF buildDeploymentInfoPanics(Deref(resp.obj))
    THEN Panicked
    ELSE Returned(Ptr(buildDeploymentInfo(Deref(resp.obj))), Nil)

RECURSIVE NamespaceInfos(_, _)
\* for _, namespace := range namespaces.Items
NamespaceInfos(items, namespaceInfos) ==
    IF items = <<>> THEN namespaceInfos
    ELSE NamespaceInfos(Tail(items),
             GoAppend(namespaceInfos, buildNamespaceInfo(Head(items))))

ClientListNamespaces(resp) ==
    IF resp.err # Nil
    THEN Returned(NilSlice, Wrap("failed to list namespaces", resp.err))
    ELSE Returned(NamespaceInfos(resp.items, NilSlice), Nil)

RECURSIVE ReadAll(_, _)
\* the read loop of GetPodLogs: every read appends its bytes to result, and
\* the first read that reports an error (io.EOF or any other) ends the loop
ReadAll(chunks, result) ==
    IF chunks = <<>> THEN result
    ELSE ReadAll(Tail(chunks), result \o Head(chunks))

ClientGetPodLogs(namespace, name, tailLines, resp) ==
    IF resp.err # Nil
    THEN Returned("", Wrap("failed to get logs for pod " \o name \o " in namespace "
                               \o namespace, resp.err))
    ELSE Returned(ReadAll(resp.chunks, ""), Nil)

\* the requests the Client methods send
ReqList(resource, namespace) == ApiRequest("list", resource, namespace, "", Nil)
\* ReqGet sending a delete of the object in place of the get
ReqGet_Delete(resource, namespace, name) ==
    ApiRequest("delete", resource, namespace, name, Nil)
ReqGet(resource, namespace, name) == ApiRequest("get", resource, namespace, name, Nil)
\* opts.TailLines is set only when tailLines is not nil
ReqGetLogs(namespace, name, tailLines) ==
    ApiRequest("getlogs", "pods", namespace, name,
               IF tailLines # Nil THEN tailLines ELSE Nil)

----------------------------------------------------------------------------
(* encoding/json: the document json.MarshalIndent writes, as a tree. *)

JNull == [kind |-> "null", s |-> "", n |-> 0, elems |-> <<>>, fields |-> <<>>]
JString(str) == [kind |-> "string", s |-> str, n |-> 0, elems |-> <<>>, fields |-> <<>>]
JNumber(num) == [kind |-> "number", s |-> "", n |-> num, elems |-> <<>>, fields |-> <<>>]
JArray(elems) == [kind |-> "array", s |-> "", n |-> 0, elems |-> elems, fields |-> <<>>]
\* an object from its <<key, value>> members
JObject(members) ==
    [kind |-> "object", s |-> "", n |-> 0, elems |-> <<>>,
     fields |-> [k \in {m[1] : m \in members} |->
                    (CHOOSE m \in members : m[1] = k)[2]]]

\* a map[string]string: null when nil, else an object
MarshalMap(m) ==
    IF m.isNil THEN JNull ELSE JObject({<<p[1], JString(p[2])>> : p \in m.kv})

\* a []string: null when nil, else an array
MarshalStrings(sl) ==
    IF sl.isNil THEN JNull
    ELSE JArray([i \in 1..Len(sl.elems) |-> JString(sl.elems[i])])

\* the members a field tagged omitempty contributes: none when it is empty
OmitEmpty(key, isEmpty, value) == IF isEmpty THEN {} ELSE {<<key, value>>}

\* MarshalPodInfo with the PodIP field tagged json:"-"
MarshalPodInfo_PodIPHidden(p) ==
    JObject({<<"name", JString(p.Name)>>, <<"namespace", JString(p.Namespace)>>,
             <<"status", JString(p.Status)>>, <<"ready", JString(p.Ready)>>,
             <<"restarts", JNumber(p.Restarts)>>, <<"age", JString(p.Age)>>}
        \cup OmitEmpty("labels", p.Labels.kv = {}, MarshalMap(p.Labels))
        \cup OmitEmpty("node_name", p.NodeName = "", JString(p.NodeName)))

MarshalPodInfo(p) ==
    JObject({<<"name", JString(p.Name)>>, <<"namespace", JString(p.Namespace)>>,
             <<"status", JString(p.Status)>>, <<"ready", JString(p.Ready)>>,
             <<"restarts", JNumber(p.Restarts)>>, <<"age", JString(p.Age)>>}
        \cup OmitEmpty("labels", p.Labels.kv = {}, MarshalMap(p.Labels))
        \cup OmitEmpty("node_name", p.NodeName = "", JString(p.NodeName))
        \cup OmitEmpty("pod_ip", p.PodIP = "", JString(p.PodIP)))

MarshalServiceInfo(v) ==
    JObject({<<"name", JString(v.Name)>>, <<"namespace", JString(v.Namespace)>>,
             <<"type", JString(v.Type)>>, <<"cluster_ip", JString(v.ClusterIP)>>,
             <<"ports", MarshalStrings(v.Ports)>>, <<"age", JString(v.Age)>>}
        \cup OmitEmpty("external_ips", v.ExternalIPs.elems = <<>>,
                       MarshalStrings(v.ExternalIPs))
        \cup OmitEmpty("labels", v.Labels.kv = {}, MarshalMap(v.Labels))
        \cup OmitEmpty("selector", v.Selector.kv = {}, MarshalMap(v.Selector)))

MarshalDeploymentInfo(d) ==
    JObject({<<"name", JString(d.Name)>>, <<"namespace", JString(d.Namespace)>>,
             <<"ready", JString(d.Ready)>>, <<"up_to_date", JNumber(d.UpToDate)>>,
             <<"available", JNumber(d.Available)>>, <<"age", JString(d.Age)>>,
             <<"replicas", JNumber(d.Replicas)>>}
        \cup OmitEmpty("labels", d.Labels.kv = {}, MarshalMap(d.Labels)))

MarshalNamespaceInfo(v) ==
    JObject({<<"name", JString(v.Name)>>, <<"status", JString(v.Status)>>,
             <<"age", JString(v.Age)>>}
        \cup OmitEmpty("labels", v.Labels.kv = {}, MarshalMap(v.Labels)))

\* an Info record of the given resource
MarshalInfo(resource, info) ==
    CASE resource = "pods"        -> MarshalPodInfo(info)
      [] resource = "services"    -> MarshalServiceInfo(info)
      [] resource = "deployments" -> MarshalDeploymentInfo(info)
      [] resource = "namespaces"  -> MarshalNamespaceInfo(info)

\* a slice of Info records: null when the slice is nil, else an array
MarshalSlice(resource, sl) ==
    IF sl.isNil THEN JNull
    ELSE JArray([i \in 1..Len(sl.elems) |-> MarshalInfo(resource, sl.elems[i])])

\* a pointer to an Info record
MarshalPtr(resource, ptr) ==
    IF ptr = Nil THEN JNull ELSE MarshalInfo(resource, Deref(ptr))

\* json.Unmarshal into a fresh Info struct: a field whose key is missing, or
\* whose value is null, keeps its zero value
Member(j, key) == IF key \in DOMAIN j.fields THEN j.fields[key] ELSE JNull
UnmarshalString(j, key) ==
    IF Member(j, key).kind = "string" THEN Member(j, key).s ELSE ""
UnmarshalInt32(j, key) ==
    IF Member(j, key).kind = "number" THEN Member(j, key).n ELSE 0
\* a map[string]string: nil unless the value is an object
UnmarshalMap(j, key) ==
    LET m == Member(j, key)
    IN  IF m.kind = "object"
        THEN MapOf({<<k, m.fields[k].s>> : k \in DOMAIN m.fields})
        ELSE NilMap
\* a []string: nil unless the value is an array
UnmarshalStrings(j, key) ==
    LET m == Member(j, key)
    IN  IF m.kind = "array"
        THEN [isNil |-> FALSE, elems |-> [i \in 1..Len(m.elems) |-> m.elems[i].s]]
        ELSE NilSlice

UnmarshalPodInfo(j) ==
    [Name      |-> UnmarshalString(j, "name"),
     Namespace |-> UnmarshalString(j, "namespace"),
     Status    |-> UnmarshalString(j, "status"),
     Ready     |-> UnmarshalString(j, "ready"),
     Restarts  |-> UnmarshalInt32(j, "restarts"),
     Age       |-> UnmarshalString(j, "age"),
     Labels    |-> UnmarshalMap(j, "labels"),
     NodeName  |-> UnmarshalString(j, "node_name"),
     PodIP     |-> UnmarshalString(j, "pod_ip")]

UnmarshalServiceInfo(j) ==
    [Name        |-> UnmarshalString(j, "name"),
     Namespace   |-> UnmarshalString(j, "namespace"),
     Type        |-> UnmarshalString(j, "type"),
     ClusterIP   |-> UnmarshalString(j, "cluster_ip"),
     ExternalIPs |-> UnmarshalStrings(j, "external_ips"),
     Ports       |-> UnmarshalStrings(j, "ports"),
     Age         |-> UnmarshalString(j, "age"),
     Labels      |-> UnmarshalMap(j, "labels"),
     Selector    |-> UnmarshalMap(j, "selector")]

UnmarshalDeploymentInfo(j) ==
    [Name      |-> UnmarshalString(j, "name"),
     Namespace |-> UnmarshalString(j, "namespace"),
     Ready     |-> UnmarshalString(j, "ready"),
     UpToDate  |-> UnmarshalInt32(j, "up_to_date"),
     Available |-> UnmarshalInt32(j, "available"),
     Age       |-> UnmarshalString(j, "age"),
     Labels    |-> UnmarshalMap(j, "labels"),
     Replicas  |-> UnmarshalInt32(j, "replicas")]

UnmarshalNamespaceInfo(j) ==
    [Name   |-> UnmarshalString(j, "name"),
     Status |-> UnmarshalString(j, "status"),
     Age    |-> UnmarshalString(j, "age"),
     Labels |-> UnmarshalMap(j, "labels")]

\* json.Unmarshal into the Info type of the given resource
UnmarshalInfo(resource, j) ==
    CASE resource = "pods"        -> UnmarshalPodInfo(j)
      [] resource = "services"    -> UnmarshalServiceInfo(j)
      [] resource = "deployments" -> UnmarshalDeploymentInfo(j)
      [] resource = "namespaces"  -> UnmarshalNamespaceInfo(j)

----------------------------------------------------------------------------
(* Tool-call arguments: map[string]interface{} with the keys the handlers read *)

Absent == [t |-> "absent", s |-> "", n |-> 0, c |-> <<>>]
StringV(cs) == [t |-> "string", s |-> Str(cs), n |-> 0, c |-> cs]
\* a float64, given in tenths
Float64V(tenths) == [t |-> "float64", s |-> "", n |-> tenths, c |-> <<>>]
IntV(i) == [t |-> "int", s |-> "", n |-> i, c |-> <<>>]
BoolV == [t |-> "bool", s |-> "", n |-> 0, c |-> <<>>]

\* v, ok := args[key].(string)
AsString(v) == [v |-> IF v.t = "string" THEN v.s ELSE "", ok |-> v.t = "string"]

\* int64(v) of a float64 v: the fraction is discarded (truncation toward zero)
Float64ToInt64(tenths) ==
    IF tenths >= 0 THEN tenths \div 10 ELSE -((-tenths) \div 10)

Digits == <<"0", "1", "2", "3", "4", "5", "6", "7", "8", "9">>
IsDigit(ch) == \E d \in 1..10 : Digits[d] = ch
DigitValue(ch) == (CHOOSE d \in 1..10 : Digits[d] = ch) - 1

RECURSIVE ParseUint(_, _)
\* strconv.ParseUint(s, 10, 64) from the value n of the digits read so far.
\* (Its range error needs more than 18 digits, beyond MaxTailLen.)
ParseUint(cs, n) ==
    IF cs = <<>> THEN [val |-> n, ok |-> TRUE]
    ELSE IF ~IsDigit(Head(cs)) THEN [val |-> 0, ok |-> FALSE]
    ELSE ParseUint(Tail(cs), n * 10 + DigitValue(Head(cs)))

\* mutant: no sign is accepted
ParseInt_Unsigned(cs) ==
    IF cs = <<>> THEN [val |-> 0, ok |-> FALSE] ELSE ParseUint(cs, 0)

\* strconv.ParseInt(s, 10, 64): [val, ok], ok = (err == nil)
ParseInt(cs) ==
    IF cs = <<>> THEN [val |-> 0, ok |-> FALSE]
    ELSE LET neg == Head(cs) = "-"
             body == IF Head(cs) \in {"+", "-"} THEN Tail(cs) ELSE cs
             un == IF body = <<>> THEN [val |-> 0, ok |-> FALSE]
                   ELSE ParseUint(body, 0)
         IN  IF ~un.ok THEN [val |-> 0, ok |-> FALSE]
             ELSE [val |-> IF neg THEN -un.val ELSE un.val, ok |-> TRUE]

\* the tailLines *int64 that GetPodLogs derives from args["tail"]
TailLines(tail) ==
    IF tail.t = "absent" THEN Nil
    ELSE CASE tail.t = "float64" -> Ptr(Float64ToInt64(tail.n))
           [] tail.t = "int"     -> Ptr(tail.n)
           [] tail.t = "string"  -> IF ParseInt(tail.c).ok
                                    THEN Ptr(ParseInt(tail.c).val) ELSE Nil
           [] OTHER              -> Nil

\* mutant: an empty namespace string is not defaulted
getNamespace_EmptyKept(args) ==
    LET ns == AsString(args.namespace)
    IN  IF ns.ok THEN ns.v ELSE "default"

getNamespace(args) ==
    LET ns == AsString(args.namespace)
    IN  IF ns.ok /\ ns.v # "" THEN ns.v ELSE "default"

EmptyArgs == [isMap |-> TRUE, name |-> Absent, namespace |-> Absent, tail |-> Absent]

----------------------------------------------------------------------------
(* internal/handlers: the tool handlers. Each takes the arguments and the   *)
(* response of the one upstream request it may send, and gives the requests *)
(* sent, what the adapter returned and what the handler returns.            *)

\* mcp.NewTextContent(fmt.Sprintf(head + "%s", body))
NewTextContent(head, body) == [type |-> "text", head |-> head, body |-> body]
RawText(str) == [kind |-> "text", s |-> str, n |-> 0, elems |-> <<>>, fields |-> <<>>]

\* return &mcp.CallToolResult{Content: ...}, nil
Success(content) ==
    [returned |-> TRUE, result |-> Ptr([Content |-> <<content>>]), err |-> Nil,
     panicked |-> FALSE]
\* return nil, err
Failure(err) == [returned |-> TRUE, result |-> Nil, err |-> err, panicked |-> FALSE]
\* the handler's goroutine panics: nothing is returned
Panic == [returned |-> FALSE, result |-> Nil, err |-> Nil, panicked |-> TRUE]
NotReturned == [returned |-> FALSE, result |-> Nil, err |-> Nil, panicked |-> FALSE]

Outcome(calls, adapter, r) == [apiCalls |-> calls, adapterRet |-> adapter, ret |-> r]
\* the handler returns before it calls the adapter
Early(r) == Outcome(<<>>, Nil, r)
ApiCall(req, resp) == [req |-> req, resp |-> resp]

\* Respond sending the request a second time when the adapter failed
Respond_RetryOnce(req, resp, a, failMsg, head, json) ==
    Outcome(IF ~a.panicked /\ a.err # Nil
            THEN <<ApiCall(req, resp), ApiCall(req, resp)>>
            ELSE <<ApiCall(req, resp)>>,
            Ptr(a),
            IF a.panicked THEN Panic
            ELSE IF a.err # Nil THEN Failure(Wrap(failMsg, a.err))
            ELSE Success(NewTextContent(head, json)))

\* the common tail of the JSON handlers, after the adapter returned `a`
Respond(req, resp, a, failMsg, head, json) ==
    Outcome(<<ApiCall(req, resp)>>, Ptr(a),
            IF a.panicked THEN Panic
            ELSE IF a.err # Nil THEN Failure(Wrap(failMsg, a.err))
            ELSE Success(NewTextContent(head, json)))

ListPods(args, resp) ==
    LET namespace == getNamespace(args)
        a == ClientListPods(namespace, resp)
    IN  Respond(ReqList("pods", namespace), resp, a, "failed to list pods",
                "Pods in namespace '" \o namespace \o "':\n",
                MarshalSlice("pods", a.val))

GetPod(args, resp) ==
    LET name == AsString(args.name)
    IN  IF ~name.ok \/ name.v = "" THEN Early(Failure(Errorf("pod name is required")))
        ELSE LET namespace == getNamespace(args)
                 a == ClientGetPod(namespace, name.v, resp)
             IN  Respond(ReqGet("pods", namespace, name.v), resp, a,
                         "failed to get pod",
                         "Pod '" \o name.v \o "' in namespace '" \o namespace \o "':\n",
                         MarshalPtr("pods", a.val))

\* mutant: only the type of the name is checked, not that it is non-empty
GetPodLogs_EmptyNameAllowed(args, resp) ==
    LET name == AsString(args.name)
    IN  IF ~name.ok THEN Early(Failure(Errorf("pod name is required")))
        ELSE LET namespace == getNamespace(args)
                 tailLines == TailLines(args.tail)
                 a == ClientGetPodLogs(namespace, name.v, tailLines, resp)
             IN  Respond(ReqGetLogs(namespace, name.v, tailLines), resp, a,
                         "failed to get pod logs",
                         "Logs for pod '" \o name.v \o "' in namespace '"
                             \o namespace \o "':\n",
                         RawText(a.val))

GetPodLogs(args, resp) ==
    LET name == AsString(args.name)
    IN  IF ~name.ok \/ name.v = "" THEN Early(Failure(Errorf("pod name is required")))
        ELSE LET namespace == getNamespace(args)
                 tailLines == TailLines(args.tail)
                 a == ClientGetPodLogs(namespace, name.v, tailLines, resp)
             IN  Respond(ReqGetLogs(namespace, name.v, tailLines), resp, a,
                         "failed to get pod logs",
                         "Logs for pod '" \o name.v \o "' in namespace '"
                             \o namespace \o "':\n",
                         RawText(a.val))

ListServices(args, resp) ==
    LET namespace == getNamespace(args)
        a == ClientListServices(namespace, resp)
    IN  Respond(ReqList("services", namespace), resp, a, "failed to list services",
                "Services in namespace '" \o namespace \o "':\n",
                MarshalSlice("services", a.val))

GetService(args, resp) ==
    LET name == AsString(args.name)
    IN  IF ~name.ok \/ name.v = ""
        THEN Early(Failure(Errorf("service name is required")))
        ELSE LET namespace == getNamespace(args)
                 a == ClientGetService(namespace, name.v, resp)
             IN  Respond(ReqGet("services", namespace, name.v), resp, a,
                         "failed to get service",
                         "Service '" \o name.v \o "' in namespace '"
                             \o namespace \o "':\n",
                         MarshalPtr("services", a.val))

ListDeployments(args, resp) ==
    LET namespace == getNamespace(args)
        a == ClientListDeployments(namespace, resp)
    IN  Respond(ReqList("deployments", namespace), resp, a,
                "failed to list deployments",
                "Deployments in namespace '" \o namespace \o "':\n",
                MarshalSlice("deployments", a.val))

GetDeployment(args, resp) ==
    LET name == AsString(args.name)
    IN  IF ~name.ok \/ name.v = ""
        THEN Early(Failure(Errorf("deployment name is required")))
        ELSE LET namespace == getNamespace(args)
                 a == ClientGetDeployment(namespace, name.v, resp)
             IN  Respond(ReqGet("deployments", namespace, name.v), resp, a,
                         "failed to get deployment",
                         "Deployment '" \o name.v \o "' in namespace '"
                             \o namespace \o "':\n",
                         MarshalPtr("deployments", a.val))

ListNamespaces(args, resp) ==
    LET a == ClientListNamespaces(resp)
    IN  Respond(ReqList("namespaces", ""), resp, a, "failed to list namespaces",
                "Namespaces:\n", MarshalSlice("namespaces", a.val))

\* GetTools: each tool's name, the properties of its input schema and the
\* required ones
Tool(name, properties, required) ==
    [Name |-> name, Properties |-> properties, Required |-> required]

GetTools ==
    << Tool("list-pods", {"namespace"}, {}),
       Tool("get-pod", {"name", "namespace"}, {"name"}),
       Tool("get-pod-logs", {"name", "namespace", "tail"}, {"name"}),
       Tool("list-services", {"namespace"}, {}),
       Tool("get-service", {"name", "namespace"}, {"name"}),
       Tool("list-deployments", {"namespace"}, {}),
       Tool("get-deployment", {"name", "namespace"}, {"name"}),
       Tool("list-namespaces", {}, {}) >>

\* args, ok := request.Params.Arguments.(map[string]interface{}); an empty map
\* when Arguments is not such a map
ArgsOf(arguments) == IF arguments.isMap THEN arguments ELSE EmptyArgs

\* mutant: the case of get-service is missing
HandleTool_CaseMissing(req, resp) ==
    LET args == ArgsOf(req.arguments)
    IN  CASE req.name = "list-pods"        -> ListPods(args, resp)
          [] req.name = "get-pod"          -> GetPod(args, resp)
          [] req.name = "get-pod-logs"     -> GetPodLogs(args, resp)
          [] req.name = "list-services"    -> ListServices(args, resp)
          [] req.name = "list-deployments" -> ListDeployments(args, resp)
          [] req.name = "get-deployment"   -> GetDeployment(args, resp)
          [] req.name = "list-namespaces"  -> ListNamespaces(args, resp)
          [] OTHER -> Early(Failure(Errorf("unknown tool: " \o req.name)))

HandleTool(req, resp) ==
    LET args == ArgsOf(req.arguments)
    IN  CASE req.name = "list-pods"        -> ListPods(args, resp)
          [] req.name = "get-pod"          -> GetPod(args, resp)
          [] req.name = "get-pod-logs"     -> GetPodLogs(args, resp)
          [] req.name = "list-services"    -> ListServices(args, resp)
          [] req.name = "get-service"      -> GetService(args, resp)
          [] req.name = "list-deployments" -> ListDeployments(args, resp)
          [] req.name = "get-deployment"   -> GetDeployment(args, resp)
          [] req.name = "list-namespaces"  -> ListNamespaces(args, resp)
          [] OTHER -> Early(Failure(Errorf("unknown tool: " \o req.name)))

----------------------------------------------------------------------------
(* The inputs of the model *)

WebName == <<"w", "e", "b">>
DefaultNs == <<"d", "e", "f", "a", "u", "l", "t">>
ProdNs == <<"p", "r", "o", "d">>

\* args["name"]: missing, empty, a name, not a string
NameValues == {Absent, StringV(<<>>), StringV(WebName), Float64V(70)}
\* args["namespace"]: missing, empty, a namespace, not a string
NamespaceValues ==
    {Absent, StringV(<<>>), StringV(DefaultNs), StringV(ProdNs), Float64V(70)}
\* args["tail"]: missing, a float64, an int, a string, another type
TailChars == {"0", "3", "+", "-", ".", "x"}
TailValues ==
    {Absent, BoolV}
        \cup {Float64V(n) : n \in {-30, 0, 30, 35}}
        \cup {IntV(n) : n \in {-3, 0, 3, 30}}
        \cup {StringV(cs) : cs \in SeqsUpTo(TailChars, MaxTailLen)}

\* request.Params.Arguments that is not a map[string]interface{}
NotAMap == [isMap |-> FALSE, name |-> Absent, namespace |-> Absent, tail |-> Absent]

ArgumentsOf(names, namespaces, tails) ==
    {NotAMap} \cup [isMap : {TRUE}, name : names, namespace : namespaces, tail : tails]

ListArguments == ArgumentsOf({Absent}, NamespaceValues, {Absent})
GetArguments == ArgumentsOf(NameValues, NamespaceValues, {Absent})
\* get-pod-logs: every name and namespace with a few tails, and every tail with
\* one name
TailSamples == {Absent, Float64V(30), StringV(<<"3">>), StringV(<<"x">>)}
LogArguments ==
    ArgumentsOf(NameValues, NamespaceValues, TailSamples)
        \cup ArgumentsOf({StringV(WebName)}, {Absent, StringV(ProdNs)}, TailValues)

\* tool names HandleTool has no case for
OtherToolNames == {"", "delete-pod", "list-pod"}

CallToolRequest(name, arguments) == [name |-> name, arguments |-> arguments]
NoRequest == CallToolRequest("", NotAMap)

\* the name and namespace a handler sends upstream for these arguments
NameOf(arguments) == AsString(ArgsOf(arguments).name).v
NamespaceOf(arguments) == getNamespace(ArgsOf(arguments))

----------------------------------------------------------------------------
(* internal/config: the configuration loader *)

\* an environment variable that is not set; one that is set is Ptr(value)
Unset == Nil

\* the environments of the process
Environments ==
    [SERVER_NAME    : {Unset, Ptr("custom-server")},
     SERVER_VERSION : {Unset, Ptr("3.0.0")},
     K8S_IN_CLUSTER : {Unset, Ptr("true"), Ptr("false")},
     LOG_LEVEL      : {Unset, Ptr("debug"), Ptr("info"), Ptr("warn"), Ptr("error"),
                       Ptr("INFO"), Ptr("verbose")},
     LOG_FORMAT     : {Unset, Ptr("json"), Ptr("text")},
     KUBECONFIG     : {Unset, Ptr("/custom/kubeconfig")},
     HOME           : {Unset, Ptr("/home/user")}]

\* getEnvWithDefault with the default returned whether the variable is set or not
getEnvWithDefault_DefaultAlways(env, key, defaultValue) == defaultValue

\* getEnvWithDefault: the value of the variable, the default when it is not set
getEnvWithDefault(env, key, defaultValue) ==
    IF env[key] = Unset THEN defaultValue ELSE Deref(env[key])

\* getKubeConfigPath: KUBECONFIG, else the kubeconfig file of the user's home
\* directory, else (no home directory) the empty path
getKubeConfigPath(env) ==
    IF env["KUBECONFIG"] # Unset THEN Deref(env["KUBECONFIG"])
    ELSE IF env["HOME"] # Unset THEN Deref(env["HOME"]) \o "/.kube/config"
    ELSE ""

\* config.Load: the settings read from the environment, and no error
Load(env) ==
    Returned(
        Ptr([Server     |-> [Name    |-> getEnvWithDefault(env, "SERVER_NAME", "k8s-mcp-server"),
                             Version |-> getEnvWithDefault(env, "SERVER_VERSION", "2.0.0")],
             Kubernetes |-> [KubeConfig |-> getKubeConfigPath(env),
                             InCluster  |-> getEnvWithDefault(env, "K8S_IN_CLUSTER", "false")
                                                = "true"],
             Logging    |-> [Level  |-> getEnvWithDefault(env, "LOG_LEVEL", "info"),
                             Format |-> getEnvWithDefault(env, "LOG_FORMAT", "text")]]),
        Nil)

----------------------------------------------------------------------------
(* The inputs and the library calls of main *)

CmdServer == "cmd/server/main.go"
Part004 == "unnamed/part_004"
\* the main functions of the repository
Programs == {CmdServer, Part004}

\* strings.ToUpper, on the level names of the environments
ToUpper(str) ==
    CASE str = "debug" -> "DEBUG" [] str = "info" -> "INFO" [] str = "warn" -> "WARN"
      [] str = "error" -> "ERROR" [] str = "verbose" -> "VERBOSE" [] OTHER -> str

\* (*slog.Level).UnmarshalText(text) on the receiver l: a known level name is
\* stored through l (a nil l panics there), any other name is an error
UnmarshalText(l, text) ==
    IF ToUpper(text) \in {"DEBUG", "INFO", "WARN", "ERROR"}
    THEN IF l = Nil THEN Panicked ELSE Returned(Ptr(ToUpper(text)), Nil)
    ELSE Returned(Nil, <<"slog: level string " \o text, "unknown name">>)

\* buildConfig without the check of the kubeconfig path
buildConfig_NoPathCheck(kubeconfig, inCluster, libErr) ==
    Returned(Nil, libErr)

\* buildConfig: libErr is the error of rest.InClusterConfig or
\* clientcmd.BuildConfigFromFlags (nil when the library call succeeds)
buildConfig(kubeconfig, inCluster, libErr) ==
    IF inCluster THEN Returned(Nil, libErr)
    ELSE IF kubeconfig = ""
    THEN Returned(Nil, Errorf("kubeconfig path is required when not running in cluster"))
    ELSE Returned(Nil, libErr)

\* the errors of the client library at construction (nil: none)
LibErrors == {Nil, <<"unable to load configuration">>}

\* NewClient: newErr is the error of kubernetes.NewForConfig
NewClient(kubeconfig, inCluster, libErr, newErr) ==
    LET c == buildConfig(kubeconfig, inCluster, libErr)
    IN  IF c.err # Nil
        THEN Returned(Nil, Wrap("failed to build kubernetes config", c.err))
        ELSE IF newErr # Nil
        THEN Returned(Nil, Wrap("failed to create kubernetes client", newErr))
        ELSE Returned(Ptr("client"), Nil)

\* a record written by log.Fatalf (the standard logger: standard error) or by
\* the slog logger of main (a text handler on standard output)
\* err is the error the record reports (nil: none)
LogRecord(msg, stream, err) ==
    Ptr([msg |-> msg, stream |-> stream, handler |-> "text", error |-> err])
Fatalf(msg, err) == LogRecord(msg, "stderr", err)
Logged(msg, err) == LogRecord(msg, "stdout", err)

\* the stream stdioServer.Listen writes the protocol responses to: os.Stdout
ProtocolStream == "stdout"

\* what stdioServer.Listen returns: nil at the end of standard input, the
\* error of the context once it is cancelled, the error of a failed read
ContextCanceled == <<"context canceled">>
ListenReturns(ctxCancelled) ==
    {Nil, <<"read /dev/stdin: input/output error">>}
        \cup (IF ctxCancelled THEN {ContextCanceled} ELSE {})

----------------------------------------------------------------------------
(* Tool calls that run concurrently against one cluster state *)

\* a cluster state: whether the server's account may read it, whether its
\* namespaces hold objects, and how the log stream of a pod ends
Clusters == [denied : BOOLEAN, populated : BOOLEAN, logsEnd : {"EOF", "unexpected EOF"}]

\* the objects of the resource in the namespace the API can list
ObjectsIn(resource, ns) ==
    CASE resource = "pods"        -> PodsIn(ns)
      [] resource = "services"    -> ServicesIn(ns)
      [] resource = "deployments" -> DeploymentsIn(ns)
      [] resource = "namespaces"  -> NamespaceObjects

\* the items a populated cluster lists, in the API's order
ItemsOf(c, resource, ns) ==
    IF ~c.populated THEN <<>>
    ELSE LET S == ObjectsIn(resource, ns)
             n == IF MaxItems < Cardinality(S) THEN MaxItems ELSE Cardinality(S)
         IN  CHOOSE l \in ListsOver(S) : Len(l) = n

\* a response that is the error e
ErrorResponse(e) ==
    [err |-> e, items |-> <<>>, obj |-> Nil, chunks |-> <<>>, readErr |-> ""]

\* what the cluster c answers to the request q: a function of c and q alone
Answer(c, q) ==
    LET items == ItemsOf(c, q.resource, q.namespace)
        found == {i \in 1..Len(items) : items[i].name = q.name}
    IN  IF c.denied THEN ErrorResponse(Forbidden)
        ELSE IF q.verb = "list" THEN [err |-> Nil, items |-> items]
        ELSE IF found = {} THEN ErrorResponse(NotFound)
        ELSE IF q.verb = "get"
        THEN [err |-> Nil, obj |-> Ptr(items[CHOOSE i \in found : TRUE])]
        ELSE [err |-> Nil,
              chunks |-> CHOOSE cs \in SeqsUpTo(LogChunks, MaxChunks) :
                            Len(cs) = MaxChunks /\ cs[1] = "a\n",
              readErr |-> c.logsEnd]

\* the goroutines that run HandleTool
CallIds == 1..MaxCalls

\* an invocation: "idle" (no request), "waiting" (the adapter has sent the
\* request `sent` and waits for the answer), "done" (HandleTool returned `ret`)
CallState(pc, req, sent, r) == [pc |-> pc, request |-> req, sent |-> sent, ret |-> r]
IdleCall == CallState("idle", NoRequest, Nil, NotReturned)

\* the requests of the concurrent calls
NamedArguments(name, namespace) ==
    [isMap |-> TRUE, name |-> name, namespace |-> namespace, tail |-> Absent]
ConcurrentRequests ==
    {CallToolRequest(t, NamedArguments(Absent, ns)) :
        t \in {"list-pods", "list-services", "list-deployments", "list-namespaces"},
        ns \in {Absent, StringV(ProdNs)}}
      \cup {CallToolRequest(t, NamedArguments(n, Absent)) :
               t \in {"get-pod", "get-pod-logs", "get-service", "get-deployment"},
               n \in {Absent, StringV(WebName)}}
      \cup {CallToolRequest("delete-pod", NamedArguments(StringV(WebName), Absent))}

\* RequestOf with the arguments kept in a field the invocations share: each
\* reads the arguments of the latest invocation that stored them
RequestOf_SharedArguments(cs, i) ==
    LET busy == {j \in CallIds : cs[j].pc # "idle"}
        latest == CHOOSE j \in busy : \A k \in busy : k <= j
    IN  CallToolRequest(cs[i].request.name, cs[latest].request.arguments)

\* HandleTool's parameter `request` in invocation i
RequestOf(cs, i) == cs[i].request

\* HandleTool up to the point where the adapter waits for the answer of the
\* request it sent: what it sent does not depend on the answer
UpTo(req) == HandleTool(req, ErrorResponse(Forbidden))

----------------------------------------------------------------------------
(* The state machine *)

Init ==
    /\ program \in Programs
    /\ environ = Nil
    /\ cfg = Nil
    /\ steps = <<>>
    /\ cancelled = FALSE
    /\ exitStatus = Nil
    /\ lastLog = Nil
    /\ phase = "init"
    /\ registered = {}
    /\ request = NoRequest
    /\ apiCalls = <<>>
    /\ adapterRet = Nil
    /\ ret = NotReturned
    /\ cluster = Nil
    /\ inflight = [i \in CallIds |-> IdleCall]

\* os.Exit(code), after the record `log` was written
Exit(code, log) ==
    /\ phase' = "exited"
    /\ exitStatus' = Ptr(code)
    /\ lastLog' = log

\* main: cfg, err := config.Load()
LoadConfig ==
    /\ phase = "init"
    /\ \E env \in Environments :
          LET l == Load(env)
          IN  /\ environ' = Ptr(env)
              /\ steps' = steps \o <<"config">>
              /\ IF l.err # Nil
                 THEN /\ Exit(1, IF program = CmdServer
                                 THEN Fatalf("Failed to load configuration", l.err)
                                 ELSE Logged("Failed to load configuration", l.err))
                      /\ UNCHANGED cfg
                 ELSE /\ cfg' = l.val
                      /\ phase' = "loaded"
                      /\ UNCHANGED <<exitStatus, lastLog>>
    /\ UNCHANGED <<concVars, program, cancelled, registered, callVars>>

\* main of cmd/server: var logLevel *slog.Level; logLevel.UnmarshalText(...)
ParseLogLevel ==
    /\ program = CmdServer
    /\ phase = "loaded"
    /\ steps' = steps \o <<"loglevel">>
    /\ LET logLevel == Nil
           r == UnmarshalText(logLevel, Deref(cfg).Logging.Level)
       IN  IF r.panicked
           THEN /\ phase' = "crashed"
                /\ exitStatus' = Ptr(2)
                /\ UNCHANGED lastLog
           ELSE IF r.err # Nil
           THEN Exit(1, Fatalf("Failed to parse log level", r.err))
           ELSE /\ phase' = "levelled"
                /\ UNCHANGED <<exitStatus, lastLog>>
    /\ UNCHANGED <<concVars, program, environ, cfg, cancelled, registered, callVars>>

\* main: srv, err := server.New(cfg, logger). server.New builds the client and
\* the handlers and adds every tool of GetTools to the MCP server, each with
\* HandleTool as its handler; main then installs the signal handler
New ==
    /\ \/ program = CmdServer /\ phase = "levelled"
       \/ program = Part004 /\ phase = "loaded"
    /\ \E libErr \in LibErrors, newErr \in LibErrors :
          LET k8sClient == NewClient(Deref(cfg).Kubernetes.KubeConfig,
                                     Deref(cfg).Kubernetes.InCluster, libErr, newErr)
          IN  IF k8sClient.err # Nil
              THEN /\ steps' = steps \o <<"client">>
                   /\ Exit(1, Logged("Failed to create server",
                                      Wrap("failed to create kubernetes client",
                                           k8sClient.err)))
                   /\ UNCHANGED registered
              ELSE /\ steps' = steps \o <<"client", "register">>
                   /\ registered' = {GetTools[i] : i \in 1..Len(GetTools)}
                   /\ phase' = "built"
                   /\ UNCHANGED <<exitStatus, lastLog>>
    /\ UNCHANGED <<concVars, program, environ, cfg, cancelled, callVars>>

\* main: srv.Run(ctx) logs the start and enters stdioServer.Listen. Nothing
\* reads the configuration or the environment afterwards: no copy is kept
Run ==
    /\ phase = "built"
    /\ phase' = "serving"
    /\ steps' = steps \o <<"serve">>
    /\ lastLog' = Logged("Starting K8s MCP Server", Nil)
    /\ environ' = Nil
    /\ cfg' = Nil
    /\ UNCHANGED <<concVars, program, cancelled, exitStatus, registered, callVars>>

\* SIGINT or SIGTERM arrives once signal.Notify is installed: the goroutine of
\* main logs it and cancels the context
Signal ==
    /\ phase \in {"built", "serving", "responding"}
    /\ ~cancelled
    /\ cancelled' = TRUE
    /\ lastLog' = Logged("Received shutdown signal", Nil)
    /\ UNCHANGED <<concVars, program, environ, cfg, steps, exitStatus, phase, registered,
                   callVars>>

\* main: srv.Run(ctx) returns what stdioServer.Listen returned; an error is
\* logged as a failure and the process exits with status 1, nil is a graceful
\* shutdown and main returns
RunReturns ==
    /\ phase = "serving"
    /\ \E err \in ListenReturns(cancelled) :
          IF err # Nil
          THEN Exit(1, Logged("Server failed", err))
          ELSE Exit(0, Logged("Server shutdown gracefully", Nil))
    /\ UNCHANGED <<concVars, program, environ, cfg, steps, cancelled, registered, callVars>>

\* Invoke with a returned error ending the process as a panic does
Invoke_FailureFatal(req, resp) ==
    LET o == HandleTool(req, resp)
    IN  /\ request' = req
        /\ apiCalls' = o.apiCalls
        /\ adapterRet' = o.adapterRet
        /\ ret' = o.ret
        /\ phase' = IF o.ret.panicked \/ o.ret.err # Nil
                    THEN "crashed" ELSE "responding"
        /\ exitStatus' = IF o.ret.panicked \/ o.ret.err # Nil
                         THEN Ptr(2) ELSE exitStatus
        /\ UNCHANGED <<concVars, program, environ, cfg, steps, cancelled, lastLog, registered>>

\* one invocation of HandleTool, run to its end; a panic ends the process
Invoke(req, resp) ==
    LET o == HandleTool(req, resp)
    IN  /\ request' = req
        /\ apiCalls' = o.apiCalls
        /\ adapterRet' = o.adapterRet
        /\ ret' = o.ret
        /\ phase' = IF o.ret.panicked THEN "crashed" ELSE "responding"
        /\ exitStatus' = IF o.ret.panicked THEN Ptr(2) ELSE exitStatus
        /\ UNCHANGED <<concVars, program, environ, cfg, steps, cancelled, lastLog, registered>>

\* the MCP server writes the response of the invocation and waits for the
\* next request; nothing of the invocation is kept
SendResponse ==
    /\ phase = "responding"
    /\ phase' = "serving"
    /\ request' = NoRequest
    /\ apiCalls' = <<>>
    /\ adapterRet' = Nil
    /\ ret' = NotReturned
    /\ UNCHANGED <<concVars, mainVars, registered>>

\* Listen reads the next request: the context is not cancelled
Accepting == phase = "serving" /\ ~cancelled

CallListPods ==
    /\ Accepting
    /\ \E a \in ListArguments :
         \E resp \in ListResponses(PodsIn(NamespaceOf(a))) :
            Invoke(CallToolRequest("list-pods", a), resp)

CallGetPod ==
    /\ Accepting
    /\ \E a \in GetArguments :
         \E resp \in GetResponses(PodsNamed(NamespaceOf(a), NameOf(a))) :
            Invoke(CallToolRequest("get-pod", a), resp)

CallGetPodLogs ==
    /\ Accepting
    /\ \E a \in LogArguments :
         \E resp \in LogResponses :
            Invoke(CallToolRequest("get-pod-logs", a), resp)

CallListServices ==
    /\ Accepting
    /\ \E a \in ListArguments :
         \E resp \in ListResponses(ServicesIn(NamespaceOf(a))) :
            Invoke(CallToolRequest("list-services", a), resp)

CallGetService ==
    /\ Accepting
    /\ \E a \in GetArguments :
         \E resp \in GetResponses(ServicesNamed(NamespaceOf(a), NameOf(a))) :
            Invoke(CallToolRequest("get-service", a), resp)

CallListDeployments ==
    /\ Accepting
    /\ \E a \in ListArguments :
         \E resp \in ListResponses(DeploymentsIn(NamespaceOf(a))) :
            Invoke(CallToolRequest("list-deployments", a), resp)

CallGetDeployment ==
    /\ Accepting
    /\ \E a \in GetArguments :
         \E resp \in GetResponses(DeploymentsNamed(NamespaceOf(a), NameOf(a))) :
            Invoke(CallToolRequest("get-deployment", a), resp)

CallListNamespaces ==
    /\ Accepting
    /\ \E a \in ListArguments :
         \E resp \in ListResponses(NamespaceObjects) :
            Invoke(CallToolRequest("list-namespaces", a), resp)

CallUnknownTool ==
    /\ Accepting
    /\ \E name \in OtherToolNames, a \in GetArguments :
         Invoke(CallToolRequest(name, a), NoResponse)

Next ==
    \/ LoadConfig
    \/ ParseLogLevel
    \/ New
    \/ Run
    \/ Signal
    \/ RunReturns
    \/ CallListPods
    \/ CallGetPod
    \/ CallGetPodLogs
    \/ CallListServices
    \/ CallGetService
    \/ CallListDeployments
    \/ CallGetDeployment
    \/ CallListNamespaces
    \/ CallUnknownTool
    \/ SendResponse

Spec == Init /\ [][Next]_vars

----------------------------------------------------------------------------
(* Concurrent tool calls: the MCP server runs HandleTool in a goroutine per  *)
(* request; the invocations interleave where they wait for the cluster.    *)

\* the process is serving (main has entered srv.Run) and the cluster is in
\* one state for the whole run
InitConcurrent ==
    /\ program = Part004
    /\ environ = Nil
    /\ cfg = Nil
    /\ steps = <<"config", "client", "register", "serve">>
    /\ cancelled = FALSE
    /\ exitStatus = Nil
    /\ lastLog = Logged("Starting K8s MCP Server", Nil)
    /\ phase = "serving"
    /\ registered = {GetTools[i] : i \in 1..Len(GetTools)}
    /\ request = NoRequest
    /\ apiCalls = <<>>
    /\ adapterRet = Nil
    /\ ret = NotReturned
    /\ cluster \in {Ptr(c) : c \in Clusters}
    /\ inflight = [i \in CallIds |-> IdleCall]

\* goroutine i enters HandleTool with a request and runs until the handler
\* returns early or its adapter has sent the upstream request
Begin(i) ==
    /\ Accepting
    /\ inflight[i].pc = "idle"
    /\ \E req \in ConcurrentRequests :
          LET o == UpTo(req)
          IN  inflight' = [inflight EXCEPT ![i] =
                  IF o.apiCalls = <<>>
                  THEN CallState("done", req, Nil, o.ret)
                  ELSE CallState("waiting", req, Ptr(o.apiCalls[1].req), NotReturned)]
    /\ UNCHANGED <<mainVars, phase, registered, callVars, cluster>>

\* the cluster answers the request of goroutine i and HandleTool runs to its
\* end; a panic ends the process
Complete(i) ==
    /\ phase = "serving"
    /\ inflight[i].pc = "waiting"
    /\ LET o == HandleTool(RequestOf(inflight, i),
                           Answer(Deref(cluster), Deref(inflight[i].sent)))
       IN  /\ inflight' = [inflight EXCEPT ![i].pc = "done", ![i].ret = o.ret]
           /\ phase' = IF o.ret.panicked THEN "crashed" ELSE phase
           /\ exitStatus' = IF o.ret.panicked THEN Ptr(2) ELSE exitStatus
    /\ UNCHANGED <<program, environ, cfg, steps, cancelled, lastLog, registered,
                   callVars, cluster>>

\* the MCP server writes the response of goroutine i
Deliver(i) ==
    /\ phase = "serving"
    /\ inflight[i].pc = "done"
    /\ inflight' = [inflight EXCEPT ![i] = IdleCall]
    /\ UNCHANGED <<mainVars, phase, registered, callVars, cluster>>

NextConcurrent ==
    \/ \E i \in CallIds : Begin(i)
    \/ \E i \in CallIds : Complete(i)
    \/ \E i \in CallIds : Deliver(i)

SpecConcurrent == InitConcurrent /\ [][NextConcurrent]_vars

----------------------------------------------------------------------------
(* Properties. They speak of the invocation of HandleTool that has just     *)
(* ended: its request, the upstream calls it made and what it returned.     *)

\* the invocation has ended (by a return or by a panic)
Invoked == ret.returned \/ ret.panicked

NamespaceToolNames ==
    {"list-pods", "get-pod", "get-pod-logs", "list-services", "get-service",
     "list-deployments", "get-deployment"}
SingleResourceToolNames == {"get-pod", "get-pod-logs", "get-service", "get-deployment"}
ListToolNames == {"list-pods", "list-services", "list-deployments", "list-namespaces"}
ToolNames == NamespaceToolNames \cup {"list-namespaces"}

\* the text content of a successful result
ResultText == Deref(ret.result).Content[1]

\* the preamble a tool's result text starts with, for a name and a namespace
ExpectedHead(tool, name, namespace) ==
    CASE tool = "list-pods"        -> "Pods in namespace '" \o namespace \o "':\n"
      [] tool = "get-pod"          ->
            "Pod '" \o name \o "' in namespace '" \o namespace \o "':\n"
      [] tool = "get-pod-logs"     ->
            "Logs for pod '" \o name \o "' in namespace '" \o namespace \o "':\n"
      [] tool = "list-services"    -> "Services in namespace '" \o namespace \o "':\n"
      [] tool = "get-service"      ->
            "Service '" \o name \o "' in namespace '" \o namespace \o "':\n"
      [] tool = "list-deployments" -> "Deployments in namespace '" \o namespace \o "':\n"
      [] tool = "get-deployment"   ->
            "Deployment '" \o name \o "' in namespace '" \o namespace \o "':\n"
      [] tool = "list-namespaces"  -> "Namespaces:\n"

\* C1: for every tool that takes a namespace, an absent or empty `namespace`
\* argument makes "default" the namespace sent to the adapter and shown in the
\* result text, and a non-empty string is used as it is.
C1_NamespaceDefault ==
    (Invoked /\ request.name \in NamespaceToolNames
             /\ request.arguments.namespace.t \in {"absent", "string"})
    => LET given == request.arguments.namespace
           expected == IF given.t = "string" /\ given.s # "" THEN given.s
                       ELSE "default"
       IN  /\ \A i \in 1..Len(apiCalls) : apiCalls[i].req.namespace = expected
           /\ ret.result # Nil =>
                 ResultText.head
                     = ExpectedHead(request.name, request.arguments.name.s, expected)

\* an empty namespace argument reached the adapter as "default" and is shown
C1_Witness ==
    /\ request.name = "list-services"
    /\ request.arguments.isMap
    /\ request.arguments.namespace = StringV(<<>>)
    /\ Len(apiCalls) = 1
    /\ apiCalls[1].req.namespace = "default"
    /\ ret.result # Nil
    /\ ResultText.head = "Services in namespace 'default':\n"

\* C2: for each single-resource tool, a `name` argument that is absent, empty
\* or not a string ends the call in an error, with no call to the adapter.
C2_NameRequired ==
    (Invoked /\ request.name \in SingleResourceToolNames
             /\ (request.arguments.name.t # "string" \/ request.arguments.name.s = ""))
    => /\ ret.returned
       /\ ret.err # Nil
       /\ ret.result = Nil
       /\ apiCalls = <<>>
       /\ adapterRet = Nil

\* a name that is not a string was refused before any upstream call
C2_Witness ==
    /\ request.name = "get-deployment"
    /\ request.arguments.name.t = "float64"
    /\ ret.returned
    /\ ret.err = <<"deployment name is required">>
    /\ apiCalls = <<>>

\* the number a decimal digit stands for
CharNumber(ch) ==
    CASE ch = "0" -> 0 [] ch = "1" -> 1 [] ch = "2" -> 2 [] ch = "3" -> 3
      [] ch = "4" -> 4 [] ch = "5" -> 5 [] ch = "6" -> 6 [] ch = "7" -> 7
      [] ch = "8" -> 8 [] ch = "9" -> 9
AllDigits(cs) ==
    /\ cs # <<>>
    /\ \A i \in 1..Len(cs) :
          cs[i] \in {"0", "1", "2", "3", "4", "5", "6", "7", "8", "9"}

RECURSIVE DigitsNumber(_)
\* the number written by the digits cs
DigitsNumber(cs) ==
    IF cs = <<>> THEN 0
    ELSE DigitsNumber(SubSeq(cs, 1, Len(cs) - 1)) * 10 + CharNumber(cs[Len(cs)])

Signed(cs) == cs # <<>> /\ cs[1] \in {"+", "-"}
Unsigned(cs) == IF Signed(cs) THEN Tail(cs) ELSE cs
\* the places of the decimal point in cs
Points(cs) == {i \in 1..Len(cs) : cs[i] = "."}
IntegerPart(cs) ==
    IF Points(cs) = {} THEN Unsigned(cs)
    ELSE LET u == Unsigned(cs) IN SubSeq(u, 1, (CHOOSE i \in Points(u) : TRUE) - 1)
FractionPart(cs) ==
    LET u == Unsigned(cs) IN SubSeq(u, (CHOOSE i \in Points(u) : TRUE) + 1, Len(u))

\* a string in integer syntax: an optional sign and one or more digits
IntegerString(cs) == AllDigits(Unsigned(cs))
\* a string in decimal syntax: an integer string, or one with a fraction
NumericString(cs) ==
    \/ IntegerString(cs)
    \/ /\ Cardinality(Points(cs)) = 1
       /\ AllDigits(IntegerPart(cs))
       /\ AllDigits(FractionPart(cs))
\* a numeric string that denotes a whole number: all fraction digits are 0
DenotesInteger(cs) ==
    /\ NumericString(cs)
    /\ Points(cs) # {} => DigitsNumber(FractionPart(cs)) = 0
IntegerDenoted(cs) ==
    IF cs[1] = "-" THEN -DigitsNumber(IntegerPart(cs)) ELSE DigitsNumber(IntegerPart(cs))

\* a get-pod-logs invocation whose name argument is a non-empty string
LogsCall ==
    /\ Invoked
    /\ request.name = "get-pod-logs"
    /\ request.arguments.isMap
    /\ request.arguments.name.t = "string"
    /\ request.arguments.name.s # ""

\* the tail limit of the upstream request
TailSent == apiCalls[1].req.tailLines

RegisteredAs(name) == {t \in registered : t.Name = name}

\* the upstream request a tool's handler sends
RouteOf(tool) ==
    CASE tool = "list-pods"        -> <<"list", "pods">>
      [] tool = "get-pod"          -> <<"get", "pods">>
      [] tool = "get-pod-logs"     -> <<"getlogs", "pods">>
      [] tool = "list-services"    -> <<"list", "services">>
      [] tool = "get-service"      -> <<"get", "services">>
      [] tool = "list-deployments" -> <<"list", "deployments">>
      [] tool = "get-deployment"   -> <<"get", "deployments">>
      [] tool = "list-namespaces"  -> <<"list", "namespaces">>

\* the error of a single-resource tool called without a name
NameRequiredOf(tool) ==
    CASE tool \in {"get-pod", "get-pod-logs"} -> "pod name is required"
      [] tool = "get-service"                 -> "service name is required"
      [] tool = "get-deployment"              -> "deployment name is required"

\* server.New has added the tools to the MCP server
ToolsRegistered == \E i \in 1..Len(steps) : steps[i] = "register"

\* C4: after startup the registered tools are exactly the eight names, in every
\* state (so the set never changes), with `name` required exactly for the four
\* get-* tools; HandleTool routes each name to its own handler (seen by the
\* upstream request sent and the text returned), and any other name returns an
\* "unknown tool" error without an upstream call.
C4_CatalogAndDispatch ==
    /\ ToolsRegistered =>
          /\ {t.Name : t \in registered} = ToolNames
          /\ \A t \in registered :
                /\ Cardinality(RegisteredAs(t.Name)) = 1
                /\ t.Required = IF t.Name \in SingleResourceToolNames
                                THEN {"name"} ELSE {}
    /\ ~ToolsRegistered => registered = {}
    /\ (Invoked /\ request.name \in ToolNames) =>
          /\ \A i \in 1..Len(apiCalls) :
                <<apiCalls[i].req.verb, apiCalls[i].req.resource>> = RouteOf(request.name)
          /\ IF request.name \in SingleResourceToolNames
                   /\ (request.arguments.name.t # "string"
                          \/ request.arguments.name.s = "")
             THEN ret.err = <<NameRequiredOf(request.name)>>
             ELSE Len(apiCalls) = 1
          /\ ret.result # Nil =>
                ResultText.head
                    = ExpectedHead(request.name, request.arguments.name.s,
                                   NamespaceOf(request.arguments))
    /\ (Invoked /\ request.name \notin ToolNames) =>
          /\ ret.returned
          /\ ret.result = Nil
          /\ ret.err = <<"unknown tool: " \o request.name>>
          /\ apiCalls = <<>>
          /\ adapterRet = Nil

\* a call of a name that is no tool was refused, with the tools registered
C4_Witness ==
    /\ phase = "responding"
    /\ Cardinality(registered) = 8
    /\ request.name = "delete-pod"
    /\ ret.err = <<"unknown tool: delete-pod">>
    /\ apiCalls = <<>>

\* what the adapter returned to the handler, and the upstream response it got
Adapter == Deref(adapterRet)
Response == apiCalls[1].resp

\* C5: every invocation ends with exactly one of a result and an error; when
\* the adapter call fails, it ends with an error that wraps the adapter's and
\* with no result.
C5_ExactlyOneOutcome ==
    Invoked =>
       /\ ret.returned
       /\ (ret.result # Nil) # (ret.err # Nil)
       /\ (adapterRet # Nil /\ Adapter.err # Nil) =>
             /\ ret.result = Nil
             /\ Len(ret.err) > 1
             /\ Tail(ret.err) = Adapter.err

\* a list tool whose upstream list came back empty, without an error
EmptyListing ==
    /\ Invoked
    /\ request.name \in ListToolNames
    /\ Len(apiCalls) = 1
    /\ Response.err = Nil
    /\ Response.items = <<>>

\* C6: listing where nothing matches returns an empty sequence and no error,
\* and the tool call succeeds with the JSON rendering of an empty sequence, [].
C6_EmptyListRendered ==
    EmptyListing =>
       /\ Adapter.err = Nil
       /\ Adapter.val.elems = <<>>
       /\ ret.result # Nil
       /\ ResultText.body = JArray(<<>>)

\* a get of one resource that the cluster does not have
GetOfMissing ==
    /\ Invoked
    /\ request.name \in {"get-pod", "get-service", "get-deployment"}
    /\ Len(apiCalls) = 1
    /\ Response.err = NotFound

\* C7: for get-pod, get-service and get-deployment, when the named resource
\* does not exist the adapter returns an error and a nil record and the tool
\* call fails; a success never carries a null or empty record.
C7_NotFoundFails ==
    /\ GetOfMissing =>
          /\ Adapter.err # Nil
          /\ Adapter.val = Nil
          /\ ret.returned
          /\ ret.result = Nil
          /\ ret.err # Nil
    /\ (Invoked /\ request.name \in {"get-pod", "get-service", "get-deployment"}
                /\ ret.result # Nil) =>
          /\ Response.err = Nil
          /\ ResultText.body.kind = "object"
          /\ ResultText.body.fields["name"] = JString(request.arguments.name.s)

\* a get-service of a missing service failed with the wrapped error
C7_Witness ==
    /\ GetOfMissing
    /\ request.name = "get-service"
    /\ Adapter.val = Nil
    /\ ret.result = Nil
    /\ ret.err = <<"failed to get service",
                   "failed to get service web in namespace prod", "not found">>

\* the projection of an upstream item of a list tool
ProjectionOf(tool, item) ==
    CASE tool = "list-pods"        -> buildPodInfo(item)
      [] tool = "list-services"    -> buildServiceInfo(item)
      [] tool = "list-deployments" -> buildDeploymentInfo(item)
      [] tool = "list-namespaces"  -> buildNamespaceInfo(item)

\* a list tool whose adapter call succeeded
ListSucceeded ==
    /\ Invoked
    /\ request.name \in ListToolNames
    /\ adapterRet # Nil
    /\ ~Adapter.panicked
    /\ Adapter.err = Nil

\* C8: a list operation that succeeds returns one record per upstream item,
\* the i-th record being the projection of the i-th item.
C8_ListInOrder ==
    ListSucceeded =>
       /\ Len(Adapter.val.elems) = Len(Response.items)
       /\ \A i \in 1..Len(Response.items) :
             /\ Adapter.val.elems[i] = ProjectionOf(request.name, Response.items[i])
             /\ Adapter.val.elems[i].Name = Response.items[i].name

\* a list of two different pods came back as two records in the same order
C8_Witness ==
    /\ ListSucceeded
    /\ request.name = "list-pods"
    /\ Len(Response.items) = 2
    /\ Response.items[1].name = "db"
    /\ Response.items[2].name = "web"
    /\ Adapter.val.elems[1].Name = "db"
    /\ Adapter.val.elems[2].Name = "web"

\* the pods projected by the invocation, each with its record
ProjectedPods ==
    IF Invoked /\ adapterRet # Nil /\ ~Adapter.panicked /\ Adapter.err = Nil
    THEN IF request.name = "get-pod"
         THEN {<<Deref(Response.obj), Deref(Adapter.val)>>}
         ELSE IF request.name = "list-pods"
         THEN {<<Response.items[i], Adapter.val.elems[i]>> :
                  i \in 1..Len(Response.items)}
         ELSE {}
    ELSE {}

\* the container statuses of a pod that are ready
ReadyOnes(pod) ==
    {i \in 1..Len(pod.containerStatuses) : pod.containerStatuses[i].ready}

Radix == 256 * 256
RECURSIVE HighSum(_)
RECURSIVE LowSum(_)
\* the restart counts of the statuses, summed in two halves: the sum is
\* HighSum * Radix + LowSum
HighSum(statuses) ==
    IF statuses = <<>> THEN 0
    ELSE (Head(statuses).restartCount \div Radix) + HighSum(Tail(statuses))
LowSum(statuses) ==
    IF statuses = <<>> THEN 0
    ELSE (Head(statuses).restartCount % Radix) + LowSum(Tail(statuses))
\* the sum is at most MaxInt32 = 32767 * Radix + (Radix - 1)
SumFits(statuses) == HighSum(statuses) + (LowSum(statuses) \div Radix) <= 32767
RestartSum(statuses) == HighSum(statuses) * Radix + LowSum(statuses)

\* the ready-count string of a pod is "R/T" with R the ready statuses and T
\* all statuses, so R <= T, and "0/0" without statuses
ReadyCountRight(pod, info) ==
    /\ info.Ready = ToString(Cardinality(ReadyOnes(pod))) \o "/"
                        \o ToString(Len(pod.containerStatuses))
    /\ Cardinality(ReadyOnes(pod)) <= Len(pod.containerStatuses)
    /\ pod.containerStatuses = <<>> => info.Ready = "0/0"

\* C9: for every pod the ready-count string is "R/T" (T the container statuses,
\* R the ready ones, "0/0" without statuses) and the restart count is the sum of
\* the restart counts of the statuses.
C9_PodCounts ==
    \A pi \in ProjectedPods :
       /\ ReadyCountRight(pi[1], pi[2])
       /\ SumFits(pi[1].containerStatuses)
       /\ pi[2].Restarts = RestartSum(pi[1].containerStatuses)

\* the deployments projected by the invocation, each with its record
ProjectedDeployments ==
    IF Invoked /\ adapterRet # Nil /\ ~Adapter.panicked /\ Adapter.err = Nil
    THEN IF request.name = "get-deployment"
         THEN {<<Deref(Response.obj), Deref(Adapter.val)>>}
         ELSE IF request.name = "list-deployments"
         THEN {<<Response.items[i], Adapter.val.elems[i]>> :
                  i \in 1..Len(Response.items)}
         ELSE {}
    ELSE {}

\* C10: for every deployment whose desired replica count is present, the
\* ready-count string is "R/D", R the ready replicas of the status and D the
\* desired replicas of the spec, and the record's replica field is D.
C10_DeploymentReady ==
    \A di \in ProjectedDeployments :
       di[1].specReplicas # Nil =>
          /\ di[2].Ready = ToString(di[1].readyReplicas) \o "/"
                               \o ToString(di[1].specReplicas[1])
          /\ di[2].Replicas = di[1].specReplicas[1]

\* a deployment with 2 ready of 3 desired (and 4 in its status) reads "2/3"
C10_Witness ==
    /\ request.name = "get-deployment"
    /\ \E di \in ProjectedDeployments :
          /\ di[1].specReplicas = Ptr(3)
          /\ di[1].statusReplicas = 4
          /\ di[1].readyReplicas = 2
          /\ di[2].Ready = "2/3"
          /\ di[2].Replicas = 3

\* every upstream object the invocation projected, with its record
Projected ==
    IF Invoked /\ adapterRet # Nil /\ ~Adapter.panicked /\ Adapter.err = Nil
    THEN IF request.name \in {"get-pod", "get-service", "get-deployment"}
         THEN {<<Deref(Response.obj), Deref(Adapter.val)>>}
         ELSE IF request.name \in ListToolNames
         THEN {<<Response.items[i], Adapter.val.elems[i]>> :
                  i \in 1..Len(Response.items)}
         ELSE {}
    ELSE {}

\* the seconds in one unit of the age string
UnitSeconds(unit) ==
    CASE unit = "s" -> 1 [] unit = "m" -> 60 [] unit = "h" -> 3600 [] unit = "d" -> 86400

\* the units of the age string, from the finest to the coarsest
AgeUnits == <<"s", "m", "h", "d">>

\* the age string str is the whole number n followed by the unit u, where n
\* units fit in the age and n + 1 do not, and u is the coarsest unit of which
\* at least one fits (seconds when none does)
AgeStringRight(age, str) ==
    \E i \in 1..Len(AgeUnits) :
       LET u == AgeUnits[i]
       IN  /\ i > 1 => UnitSeconds(u) <= age
           /\ i < Len(AgeUnits) => age < UnitSeconds(AgeUnits[i + 1])
           /\ \E n \in 0..age :
                 /\ n * UnitSeconds(u) <= age
                 /\ age - n * UnitSeconds(u) < UnitSeconds(u)
                 /\ str = ToString(n) \o u

LogsRequested ==
    /\ Invoked
    /\ request.name = "get-pod-logs"
    /\ Len(apiCalls) = 1

RECURSIVE Joined(_)
\* the text of a stream: its chunks one after the other
Joined(chunks) ==
    IF chunks = <<>> THEN "" ELSE Head(chunks) \o Joined(Tail(chunks))

\* C12: get-pod-logs returns the full text read to the end of the stream; it
\* fails when the stream cannot be opened and when the stream reports an error
\* other than end-of-stream, so no success carries a text cut short by a read
\* error.
C12_LogsReadToEnd ==
    LogsRequested =>
       /\ Response.err # Nil => (ret.result = Nil /\ ret.err # Nil)
       /\ (Response.err = Nil /\ Response.readErr = "EOF") =>
             /\ ret.result # Nil
             /\ ResultText.body = RawText(Joined(Response.chunks))
       /\ (Response.err = Nil /\ Response.readErr # "EOF") =>
             (ret.result = Nil /\ ret.err # Nil)

\* the resource a tool reads
ResourceOf(tool) ==
    CASE tool \in {"list-pods", "get-pod"}               -> "pods"
      [] tool \in {"list-services", "get-service"}       -> "services"
      [] tool \in {"list-deployments", "get-deployment"} -> "deployments"
      [] tool = "list-namespaces"                        -> "namespaces"

\* every display record the invocation serialized, with its JSON
Serialized ==
    IF Invoked /\ ret.result # Nil /\ request.name # "get-pod-logs"
    THEN IF request.name \in ListToolNames
         THEN {<<Adapter.val.elems[i], ResultText.body.elems[i]>> :
                  i \in 1..Len(Adapter.val.elems)}
         ELSE {<<Deref(Adapter.val), ResultText.body>>}
    ELSE {}

\* C13 as stated: every display record the projection can produce, with its
\* label, selector or address collections empty or absent, is equal field for
\* field to the record parsed back from its JSON.
C13_RoundTripAsStated ==
    \A rj \in Serialized :
       UnmarshalInfo(ResourceOf(request.name), rj[2]) = rj[1]

\* a map field, with the empty map taken for the absent one
AbsentIfEmpty(m) == IF m.kv = {} THEN NilMap ELSE m

\* the record with its empty map fields made absent
EmptyMapsAbsent(resource, info) ==
    IF resource = "services"
    THEN [info EXCEPT !.Labels = AbsentIfEmpty(@), !.Selector = AbsentIfEmpty(@)]
    ELSE [info EXCEPT !.Labels = AbsentIfEmpty(@)]

\* C13, amended: the record parsed back from the JSON of a display record is
\* equal to it field for field, except that a label or selector map that is
\* present and empty is parsed back as absent.
C13_RoundTripEmptyMapsAbsent ==
    \A rj \in Serialized :
       UnmarshalInfo(ResourceOf(request.name), rj[2])
           = EmptyMapsAbsent(ResourceOf(request.name), rj[1])

\* a pod with a present, empty label map was serialized without labels and
\* parsed back to a record without labels
C13_Witness ==
    /\ request.name = "get-pod"
    /\ \E rj \in Serialized :
          /\ rj[1].Labels = EmptyLabels
          /\ rj[1].PodIP = "10.0.0.1"
          /\ "labels" \notin DOMAIN rj[2].fields
          /\ UnmarshalPodInfo(rj[2]).Labels = NilMap
          /\ UnmarshalPodInfo(rj[2]).PodIP = "10.0.0.1"

\* the upstream operations that read
ReadVerbs == {"list", "get", "getlogs"}

\* the verb and resource each tool sends upstream
UpstreamOf(tool) ==
    CASE tool \in ListToolNames -> <<"list", ResourceOf(tool)>>
      [] tool = "get-pod-logs"  -> <<"getlogs", "pods">>
      [] OTHER                  -> <<"get", ResourceOf(tool)>>

\* C14: every upstream operation the server issues, for any tool call with any
\* arguments and any outcome, is a list, a get or a log read (the one that
\* belongs to the tool), never a create, update or delete: the server does not
\* change the cluster.
C14_ReadOnly ==
    \A i \in 1..Len(apiCalls) :
       /\ apiCalls[i].req.verb \in ReadVerbs
       /\ request.name \in ToolNames
       /\ <<apiCalls[i].req.verb, apiCalls[i].req.resource>> = UpstreamOf(request.name)

\* a get-deployment that failed upstream had sent a get and nothing else
C14_Witness ==
    /\ Invoked
    /\ request.name = "get-deployment"
    /\ ret.err # Nil
    /\ Len(apiCalls) = 1
    /\ apiCalls[1].req.verb = "get"
    /\ apiCalls[1].req.resource = "deployments"
    /\ apiCalls[1].resp.err = Forbidden

\* the invocation was refused before any upstream request: a required name is
\* missing, or the tool is unknown
Refused ==
    \/ request.name \notin ToolNames
    \/ /\ request.name \in SingleResourceToolNames
       /\ ~(request.arguments.isMap /\ request.arguments.name.t = "string"
              /\ request.arguments.name.s # "")

\* C15: an invocation issues at most one upstream request, none when the
\* arguments are refused or the tool is unknown, and when the request fails the
\* invocation fails without a second request.
C15_NoRetry ==
    Invoked =>
       /\ Len(apiCalls) <= 1
       /\ Refused => apiCalls = <<>>
       /\ (Len(apiCalls) >= 1 /\ apiCalls[1].resp.err # Nil) =>
             /\ Len(apiCalls) = 1
             /\ ret.returned
             /\ ret.result = Nil
             /\ ret.err # Nil

\* a list-services that was refused upstream failed after its one request
C15_Witness ==
    /\ Invoked
    /\ request.name = "list-services"
    /\ Len(apiCalls) = 1
    /\ apiCalls[1].resp.err = Forbidden
    /\ ret.result = Nil
    /\ ret.err = <<"failed to list services",
                   "failed to list services in namespace default", "forbidden">>

\* the invocation ended in a reported failure
CallFailed == ret.returned /\ ret.err # Nil

\* the server waits for a request and keeps nothing of earlier invocations
Idle ==
    /\ phase = "serving"
    /\ request = NoRequest
    /\ apiCalls = <<>>
    /\ adapterRet = Nil
    /\ ret = NotReturned

\* C16: a tool call that fails (required argument missing, unknown tool,
\* upstream error) does not stop the server; the step after it leaves the
\* server serving, with its tools as registered and with nothing of the failed
\* call kept, so a later call has the outcome it would have had without it.
C16_FailureKeepsServing ==
    /\ [](CallFailed => phase = "responding")
    /\ [][(CallFailed /\ ret' # ret) => (Idle' /\ registered' = registered)]_vars

\* a get-pod without a name has failed and its response is about to be sent
C16_Witness ==
    /\ phase = "responding"
    /\ request.name = "get-pod"
    /\ CallFailed
    /\ ret.err = <<"pod name is required">>

\* main has entered srv.Run
ServeStarted == \E i \in 1..Len(steps) : steps[i] = "serve"

\* C17: once the server is serving it serves until SIGINT or SIGTERM arrives;
\* after the signal the context is cancelled, the serve loop exits and the
\* process returns cleanly: it logs the graceful shutdown and exits with status
\* zero, not through the "Server failed" path. Stated for the exits of the
\* serve loop that follow the signal and are not failures to read the input.
C17_SignalShutsDownCleanly ==
    (phase = "exited" /\ ServeStarted /\ cancelled
         /\ Deref(lastLog).error \in {Nil, ContextCanceled}) =>
       /\ exitStatus = Ptr(0)
       /\ lastLog = Logged("Server shutdown gracefully", Nil)

\* the order of the startup steps of each main
StepOrder(prog) ==
    IF prog = CmdServer
    THEN <<"config", "loglevel", "client", "register", "serve">>
    ELSE <<"config", "client", "register", "serve">>

\* s is an initial part of t
IsPrefix(s, t) == Len(s) <= Len(t) /\ \A i \in 1..Len(s) : s[i] = t[i]

\* the process ended during startup
StartupFailed == phase \in {"exited", "crashed"} /\ ~ServeStarted

\* C18: the startup steps run in the order configuration load, log-level
\* parse, client construction, tool registration, serve; when a step fails
\* (also for a missing kubeconfig path outside in-cluster mode) the process
\* ends with a non-zero exit status, the step is not retried, no later step
\* runs and no tool call is served.
C18_StartupOrderAndFailure ==
    /\ IsPrefix(steps, StepOrder(program))
    /\ StartupFailed =>
          /\ exitStatus \in {Ptr(1), Ptr(2)}
          /\ registered = {}
          /\ ~Invoked
          /\ request = NoRequest
    /\ (request # NoRequest \/ Invoked) => ServeStarted
    /\ (cfg # Nil /\ ~Deref(cfg).Kubernetes.InCluster
                  /\ Deref(cfg).Kubernetes.KubeConfig = "") =>
          /\ ~ToolsRegistered
          /\ phase \notin {"built", "serving", "responding"}

\* without a kubeconfig path and outside a cluster, the construction of the
\* client failed: the process exited with status 1 before registering a tool
C18_Witness ==
    /\ phase = "exited"
    /\ exitStatus = Ptr(1)
    /\ cfg # Nil
    /\ ~Deref(cfg).Kubernetes.InCluster
    /\ Deref(cfg).Kubernetes.KubeConfig = ""
    /\ steps = <<"config", "client">>
    /\ Deref(lastLog).msg = "Failed to create server"
    /\ Deref(lastLog).error =
          <<"failed to create kubernetes client",
            "failed to build kubernetes config",
            "kubeconfig path is required when not running in cluster">>
    /\ registered = {}

\* LOG_LEVEL as the README documents it: debug, info, warn, error, or unset
DocumentedLevel ==
    /\ environ # Nil
    /\ Deref(environ).LOG_LEVEL \in
          {Unset, Ptr("debug"), Ptr("info"), Ptr("warn"), Ptr("error")}

\* main of cmd/server has run its log-level step
LevelStepDone ==
    /\ program = CmdServer
    /\ Len(steps) >= 2
    /\ steps[2] = "loglevel"

\* C19: with a parseable LOG_LEVEL (debug, info, warn, error, or the default
\* when unset) the harness gets past log-level parsing and goes on to construct
\* the cluster client; only an unparseable LOG_LEVEL ends startup at that step.
C19_ParseableLevelPasses ==
    /\ (LevelStepDone /\ DocumentedLevel) => phase \notin {"crashed", "exited"}
    /\ (LevelStepDone /\ steps = <<"config", "loglevel">>
                      /\ phase \in {"crashed", "exited"}) => ~DocumentedLevel

\* the environment variables that set a string of the configuration, with the
\* documented default of each
StringSettings ==
    {<<"SERVER_NAME", "k8s-mcp-server">>, <<"SERVER_VERSION", "2.0.0">>,
     <<"LOG_LEVEL", "info">>, <<"LOG_FORMAT", "text">>}

\* the setting loaded for a variable
Setting(c, key) ==
    CASE key = "SERVER_NAME"    -> c.Server.Name
      [] key = "SERVER_VERSION" -> c.Server.Version
      [] key = "LOG_LEVEL"      -> c.Logging.Level
      [] key = "LOG_FORMAT"     -> c.Logging.Format
      [] key = "KUBECONFIG"     -> c.Kubernetes.KubeConfig

\* config.Load has returned and main holds the configuration
Loaded == cfg # Nil /\ environ # Nil

\* C20: each of SERVER_NAME, SERVER_VERSION, K8S_IN_CLUSTER, LOG_LEVEL,
\* LOG_FORMAT and KUBECONFIG gives the loaded setting its value when it is set
\* and the documented default when it is not ("k8s-mcp-server", "2.0.0", false,
\* "info", "text", the kubeconfig file of the user's home directory);
\* K8S_IN_CLUSTER="true" gives the in-cluster flag true; loading with no
\* variable set returns no error.
C20_ConfigLoaded ==
    /\ Loaded =>
          LET env == Deref(environ)
              c == Deref(cfg)
          IN  /\ \A sd \in StringSettings :
                    Setting(c, sd[1]) = IF env[sd[1]] = Unset THEN sd[2]
                                        ELSE env[sd[1]][1]
              /\ env.KUBECONFIG # Unset => c.Kubernetes.KubeConfig = env.KUBECONFIG[1]
              /\ (env.KUBECONFIG = Unset /\ env.HOME # Unset) =>
                    c.Kubernetes.KubeConfig = env.HOME[1] \o "/.kube/config"
              /\ c.Kubernetes.InCluster = (env.K8S_IN_CLUSTER = Ptr("true"))
    /\ (environ # Nil /\ \A k \in DOMAIN Deref(environ) \ {"HOME"} :
                            Deref(environ)[k] = Unset) =>
          cfg # Nil

\* the custom configuration of the tests was loaded as given
C20_Witness ==
    /\ phase = "loaded"
    /\ Loaded
    /\ Deref(environ).SERVER_NAME = Ptr("custom-server")
    /\ Deref(environ).K8S_IN_CLUSTER = Ptr("true")
    /\ Deref(environ).LOG_FORMAT = Ptr("json")
    /\ Deref(environ).KUBECONFIG = Unset
    /\ Deref(cfg).Server.Name = "custom-server"
    /\ Deref(cfg).Server.Version = "2.0.0"
    /\ Deref(cfg).Kubernetes.InCluster
    /\ Deref(cfg).Kubernetes.KubeConfig = "/home/user/.kube/config"
    /\ Deref(cfg).Logging.Format = "json"

----------------------------------------------------------------------------
(* C21 *)

\* the format LOG_FORMAT asks for: json, or text (also when it is not set)
ConfiguredFormat ==
    IF Deref(environ)["LOG_FORMAT"] = Ptr("json") THEN "json" ELSE "text"

\* the last record was written by the slog logger of main while the
\* environment the process was started with is known
ProcessLoggerWrote ==
    /\ environ # Nil
    /\ lastLog # Nil
    /\ lastLog = Logged(Deref(lastLog).msg, Deref(lastLog).error)

\* C21: the configured log format takes effect: with LOG_FORMAT=json the
\* process logger emits JSON-format records, with LOG_FORMAT=text or unset it
\* emits text-format records.
C21_LogFormatTakesEffect ==
    ProcessLoggerWrote => Deref(lastLog).handler = ConfiguredFormat

----------------------------------------------------------------------------
(* C22 *)

\* what HandleTool returns for the request when it is the only call running
\* against the cluster c
Alone(c, req) ==
    LET o == UpTo(req)
    IN  IF o.apiCalls = <<>> THEN o.ret
        ELSE HandleTool(req, Answer(c, o.apiCalls[1].req)).ret

----------------------------------------------------------------------------
(* C23 *)

\* the deployments the upstream answered the invocation with
DeploymentsAnswered ==
    IF Invoked /\ apiCalls # <<>> /\ Response.err = Nil
    THEN IF request.name = "get-deployment" THEN {Deref(Response.obj)}
         ELSE IF request.name = "list-deployments"
         THEN {Response.items[i] : i \in 1..Len(Response.items)}
         ELSE {}
    ELSE {}

\* C23: projecting a deployment whose desired replica count is absent faults
\* (a nil dereference): no record is produced and no error is returned through
\* the normal error path. A list-deployments call whose upstream response
\* contains one such deployment therefore returns no record of any deployment
\* of the namespace.
C23_AbsentReplicasFault ==
    (\E d \in DeploymentsAnswered : d.specReplicas = Nil) =>
        /\ Adapter.panicked
        /\ ret.panicked /\ ~ret.returned
        /\ ret.result = Nil
        /\ ret.err = Nil
        /\ phase = "crashed"

\* list-deployments was answered with a deployment of 3 desired replicas and
\* one whose desired replica count is absent, and has faulted
C23_Witness ==
    /\ request.name = "list-deployments"
    /\ ret.panicked
    /\ \E d \in DeploymentsAnswered : d.specReplicas = Ptr(3)
    /\ \E d \in DeploymentsAnswered : d.specReplicas = Nil

----------------------------------------------------------------------------
(* C24 *)

\* C24: the standard output stream carries only protocol response messages:
\* in every run no log record (of startup, of the shutdown signal, of a
\* handler) is written to the stream the protocol server writes its responses
\* to.
C24_NoLogOnProtocolStream ==
    lastLog # Nil => Deref(lastLog).stream # ProtocolStream

----------------------------------------------------------------------------
(* C25 *)

\* the magnitude of the time between the creation timestamp and the clock
Magnitude(age) == IF age < 0 THEN 0 - age ELSE age

\* the age string str is a non-negative whole number n followed by a unit,
\* the coarsest unit the magnitude of the age allows: n is under 60 with "s"
\* and "m" and under 24 with "h"
AgeStringWellFormed(age, str) ==
    \E i \in 1..Len(AgeUnits) :
       \E n \in 0..Magnitude(age) :
          /\ str = ToString(n) \o AgeUnits[i]
          /\ AgeUnits[i] \in {"s", "m"} => n < 60
          /\ AgeUnits[i] = "h" => n < 24
          /\ i > 1 => UnitSeconds(AgeUnits[i]) <= Magnitude(age)

\* C25: for every creation timestamp, also one later than the current clock
\* (clock skew), the age string carries a non-negative whole number and the
\* unit is the coarsest one the magnitude of the time difference allows: never
\* 60 or more with "s" or "m", never 24 or more with "h".
C25_AgeOfAnyTimestamp ==
    \A oi \in Projected : AgeStringWellFormed(oi[1].sinceCreation, oi[2].Age)

=============================================================================
